---- MODULE Spec2Model ----
(***************************************************************************)
(* Model of the broadcast channel                                          *)
(* (rayexec_execution/src/execution/operators/util/broadcast.rs) and of    *)
(* the partitioned table scans (rayexec_parquet/src/functions/datatable.rs *)
(* and rayexec_postgres/src/lib.rs), of the array and batch concatenation  *)
(* (rayexec_bullet/src/compute/concat.rs) and of the planner's dispatch    *)
(* (rayexec_execution/src/planner/plan.rs and expr.rs).                    *)
(*                                                                         *)
(* Every method of the channel runs under the single mutex of              *)
(* BroadcastState, so each method is one atomic action.  Rust indices are  *)
(* 0-based; slot i of `batches` is batches[i + 1] here, and partition p of *)
(* a scan is scans[p + 1].                                                 *)
(***************************************************************************)
EXTENDS Integers, Sequences, FiniteSets, TLC

(* ------------------------------ bounds --------------------------------- *)

MaxReceivers == 2

MaxSends == 2

MaxRecvCalls == 3

MaxPartitions == 3

MaxRowGroups == 4

MaxStream == 2

MaxLen == 1

MaxCols == 2

MaxZeros == 1

MaxItems == 2

MaxRows == 2

VARIABLES
    num_receivers,   \* BroadcastState.num_receivers
    batches,         \* BroadcastState.batches: Seq of BatchState
    recv_wakers,     \* BroadcastState.recv_wakers: subscribe_idx -> Option<(usize, Waker)>
    finished,        \* BroadcastState.finished
    batch_idx,       \* BroadcastReceiver.batch_idx, per receiver
    alive,           \* receiver r has not been dropped
    futs,            \* per receiver, the RecvFuts it made: batch_idx and status
    got,             \* per receiver, the outputs of its futures in the order they resolved
    sent,            \* the batches handed to send, in call order
    poll_panic,      \* a poll hit the usize underflow or an unwrap on None
    table_kind,      \* which DataTable is scanned: "parquet", "postgres" or "none"
    num_partitions,  \* the argument of DataTable::scan
    num_row_groups,  \* metadata.parquet_metadata.row_groups().len()
    stream_len,      \* number of batches the COPY stream of the table holds
    scan_result,     \* "none" before the call, then "Ok", "Err" or "panic"
    scans,           \* the Vec<Box<dyn DataTableScan>> that scan returned
    stream_pos,      \* per scan, how far its own stream has been read
    scan_state,      \* per scan: "open", "exhausted" or "error"
    pulled,          \* per scan, the source batches it has produced
    arrays,          \* the argument of concat: a sequence of arrays
    concat_out,      \* what concat(arrays) returned
    nested_out,      \* what the two nested concats of three arrays returned
    batch_list,      \* the argument of concat_batches: a sequence of batches
    batches_out,     \* what concat_batches(batch_list) returned
    statement,       \* the argument of plan_statement
    plan_out,        \* how plan_statement(statement) ended
    literal_in,      \* the argument of plan_literal
    literal_out,     \* what plan_literal(literal_in) returned
    scope_in,        \* the scope handed to apply_alias
    alias_in,        \* the Option<FromAlias> handed to apply_alias
    alias_out,       \* what apply_alias(scope_in, alias_in) returned
    values_in,       \* the rows of the ast::Values handed to plan_values
    values_out       \* what plan_values(values_in) returned

bvars == <<num_receivers, batches, recv_wakers, finished, batch_idx, alive,
           futs, got, sent, poll_panic>>

svars == <<table_kind, num_partitions, num_row_groups, stream_len, scan_result,
           scans, stream_pos, scan_state, pulled>>

cvars == <<arrays, concat_out, nested_out, batch_list, batches_out,
           statement, plan_out>>

pvars == <<literal_in, literal_out, scope_in, alias_in, alias_out, values_in,
           values_out>>

vars == <<bvars, svars, cvars, pvars>>

(* ------------------------------ values --------------------------------- *)

\* Option<Batch>::None; a stored payload is a positive number.
NoBatch == 0

\* The batch handed to the next send: the batches of a run are told apart by
\* their number.
NextBatch == Len(sent) + 1

\* Output of a future that resolved to Poll::Ready(None).
EndOfStream == 0

\* Option<(usize, Waker)>::None in recv_wakers.
NoWaker == [some |-> FALSE, batch_idx |-> 0, waker |-> 0]

\* Some((batch_idx, waker)); the waker is the one of the task that polls the
\* w-th future of the receiver owning the entry.
SomeWaker(i, w) == [some |-> TRUE, batch_idx |-> i, waker |-> w]

Receivers == 0..(num_receivers - 1)

\* A future that was created, has not resolved and has not been dropped.
Unresolved == {"new", "pending", "woken"}

(* ---------------------------- BroadcastChannel ------------------------- *)

\* Waker::wake for the task that polls the w-th future of a receiver whose
\* futures are fs: a parked future becomes runnable; a resolved or dropped
\* one is unaffected.
Wake(fs, w) ==
    IF fs[w].st = "pending" THEN [fs EXCEPT ![w].st = "woken"] ELSE fs

\* BroadcastChannel::new(num_recvs)
new(num_recvs) ==
    /\ num_receivers = num_recvs
    /\ batches = <<>>
    /\ recv_wakers = [r \in 0..(num_recvs - 1) |-> NoWaker]
    /\ finished = FALSE
    /\ batch_idx = [r \in 0..(num_recvs - 1) |-> 0]
    /\ alive = [r \in 0..(num_recvs - 1) |-> TRUE]
    /\ futs = [r \in 0..(num_recvs - 1) |-> <<>>]

\* A bounded send: it waits until the previous slot has been consumed by
\* every receiver.
sendWhenConsumed(batch) ==
    LET idx == Len(batches)
        hit(r) == recv_wakers[r].some /\ recv_wakers[r].batch_idx = idx
    IN  /\ idx > 0 => batches[idx].remaining_recv = 0
        /\ batches' = Append(batches, [remaining_recv |-> num_receivers,
                                       batch |-> batch])
        /\ recv_wakers' = [r \in Receivers |->
                             IF hit(r) THEN NoWaker ELSE recv_wakers[r]]
        /\ futs' = [r \in Receivers |->
                       IF hit(r) THEN Wake(futs[r], recv_wakers[r].waker)
                                 ELSE futs[r]]
        /\ UNCHANGED <<num_receivers, finished, batch_idx, alive, got,
                       poll_panic>>

\* A send that wakes and clears every registered waker, whatever index it
\* waits for.
sendWakeAll(batch) ==
    /\ batches' = Append(batches, [remaining_recv |-> num_receivers,
                                   batch |-> batch])
    /\ recv_wakers' = [r \in Receivers |-> NoWaker]
    /\ futs' = [r \in Receivers |->
                   IF recv_wakers[r].some
                       THEN Wake(futs[r], recv_wakers[r].waker)
                       ELSE futs[r]]
    /\ UNCHANGED <<num_receivers, finished, batch_idx, alive, got,
                   poll_panic>>

\* A send that expects a single consumer per slot.
sendOneConsumer(batch) ==
    LET idx == Len(batches)
        hit(r) == recv_wakers[r].some /\ recv_wakers[r].batch_idx = idx
    IN  /\ batches' = Append(batches, [remaining_recv |-> 1,
                                       batch |-> batch])
        /\ recv_wakers' = [r \in Receivers |->
                             IF hit(r) THEN NoWaker ELSE recv_wakers[r]]
        /\ futs' = [r \in Receivers |->
                       IF hit(r) THEN Wake(futs[r], recv_wakers[r].waker)
                                 ELSE futs[r]]
        /\ UNCHANGED <<num_receivers, finished, batch_idx, alive, got,
                       poll_panic>>

\* BroadcastChannel::send(batch).  The loop over recv_wakers treats each
\* entry on its own, so it is a map over the entries.
send(batch) ==
    LET idx == Len(batches)
        remaining_recv == num_receivers
        hit(r) == recv_wakers[r].some /\ recv_wakers[r].batch_idx = idx
    IN  /\ batches' = Append(batches, [remaining_recv |-> remaining_recv,
                                       batch |-> batch])
        /\ recv_wakers' = [r \in Receivers |->
                             IF hit(r) THEN NoWaker ELSE recv_wakers[r]]
        /\ futs' = [r \in Receivers |->
                       IF hit(r) THEN Wake(futs[r], recv_wakers[r].waker)
                                 ELSE futs[r]]
        /\ UNCHANGED <<num_receivers, finished, batch_idx, alive, got,
                       poll_panic>>

\* A finish that wakes through `waker.as_ref()` instead of `waker.take()`:
\* the entries stay registered.
finishKeepWakers ==
    /\ finished' = TRUE
    /\ futs' = [r \in Receivers |->
                   IF recv_wakers[r].some
                       THEN Wake(futs[r], recv_wakers[r].waker)
                       ELSE futs[r]]
    /\ UNCHANGED <<num_receivers, batches, recv_wakers, batch_idx, alive, got,
                   sent, poll_panic>>

\* A finish that sets the flag and clears the entries without waking them.
finishNoWake ==
    /\ finished' = TRUE
    /\ recv_wakers' = [r \in Receivers |-> NoWaker]
    /\ UNCHANGED <<num_receivers, batches, batch_idx, alive, futs, got, sent,
                   poll_panic>>

\* BroadcastChannel::finish()
finish ==
    /\ finished' = TRUE
    /\ futs' = [r \in Receivers |->
                   IF recv_wakers[r].some
                       THEN Wake(futs[r], recv_wakers[r].waker)
                       ELSE futs[r]]
    /\ recv_wakers' = [r \in Receivers |-> NoWaker]
    /\ UNCHANGED <<num_receivers, batches, batch_idx, alive, got, sent,
                   poll_panic>>

\* A recv that forgets `self.batch_idx += 1`.
recvNoAdvance(r) ==
    /\ futs' = [futs EXCEPT ![r] =
                  Append(@, [batch_idx |-> batch_idx[r], st |-> "new"])]
    /\ UNCHANGED <<num_receivers, batches, recv_wakers, finished, batch_idx,
                   alive, got, sent, poll_panic>>

\* A recv whose cursor follows completion: the future is bound to the number
\* of futures of the receiver that have resolved.
recvOnCompletion(r) ==
    /\ futs' = [futs EXCEPT ![r] =
                  Append(@, [batch_idx |->
                                 Cardinality({f \in DOMAIN futs[r] :
                                                 futs[r][f].st = "ready"}),
                             st |-> "new"])]
    /\ batch_idx' = [batch_idx EXCEPT ![r] = @ + 1]
    /\ UNCHANGED <<num_receivers, batches, recv_wakers, finished, alive, got,
                   sent, poll_panic>>

\* BroadcastReceiver::recv(): the future takes the current batch_idx and the
\* cursor advances at once.
recv(r) ==
    /\ futs' = [futs EXCEPT ![r] =
                  Append(@, [batch_idx |-> batch_idx[r], st |-> "new"])]
    /\ batch_idx' = [batch_idx EXCEPT ![r] = @ + 1]
    /\ UNCHANGED <<num_receivers, batches, recv_wakers, finished, alive, got,
                   sent, poll_panic>>

\* The future resolved: Poll::Ready(out).
Ready(r, f, out) ==
    /\ got' = [got EXCEPT ![r] =
                 Append(@, [idx |-> futs[r][f].batch_idx, out |-> out])]
    /\ futs' = [futs EXCEPT ![r][f].st = "ready"]

\* A poll that clones the batch even for the last receiver.
PollSlotAlwaysClone(r, f) ==
    LET i == futs[r][f].batch_idx
        slot == batches[i + 1]
    IN  /\ slot.remaining_recv > 0
        /\ batches' = [batches EXCEPT ![i + 1].remaining_recv = @ - 1]
        /\ Ready(r, f, slot.batch)
        /\ UNCHANGED <<num_receivers, recv_wakers, finished, batch_idx,
                       alive, sent, poll_panic>>

\* A poll in which the first consumer takes the payload out of the slot.
PollSlotTakeFirst(r, f) ==
    LET i == futs[r][f].batch_idx
        slot == batches[i + 1]
    IN  IF slot.remaining_recv = 0 \/ slot.batch = NoBatch
        THEN /\ poll_panic' = TRUE
             /\ futs' = [futs EXCEPT ![r][f].st = "ready"]
             /\ UNCHANGED <<num_receivers, batches, recv_wakers, finished,
                            batch_idx, alive, got, sent>>
        ELSE /\ batches' = [batches EXCEPT ![i + 1] =
                              [remaining_recv |-> slot.remaining_recv - 1,
                               batch |-> NoBatch]]
             /\ Ready(r, f, slot.batch)
             /\ UNCHANGED <<num_receivers, recv_wakers, finished, batch_idx,
                            alive, sent, poll_panic>>

\* RecvFut::poll, the arm Some(state): the slot exists.
PollSlot(r, f) ==
    LET i == futs[r][f].batch_idx
        slot == batches[i + 1]
        remaining_recv == slot.remaining_recv - 1
    IN  IF slot.remaining_recv = 0 \/ slot.batch = NoBatch
        THEN \* `remaining_recv -= 1` underflows, or unwrap() meets None
             /\ poll_panic' = TRUE
             /\ futs' = [futs EXCEPT ![r][f].st = "ready"]
             /\ UNCHANGED <<num_receivers, batches, recv_wakers, finished,
                            batch_idx, alive, got, sent>>
        ELSE /\ batches' = [batches EXCEPT ![i + 1] =
                              [remaining_recv |-> remaining_recv,
                               batch |-> IF remaining_recv = 0
                                           THEN NoBatch
                                           ELSE slot.batch]]
             /\ Ready(r, f, slot.batch)
             /\ UNCHANGED <<num_receivers, recv_wakers, finished, batch_idx,
                            alive, sent, poll_panic>>

\* A poll that reports end-of-stream for a missing slot without looking at
\* `finished`.
PollNoSlotEager(r, f) ==
    /\ Ready(r, f, EndOfStream)
    /\ UNCHANGED <<num_receivers, batches, recv_wakers, finished,
                   batch_idx, alive, sent, poll_panic>>

\* A poll that parks on a missing slot without looking at `finished`.
PollNoSlotAlwaysPending(r, f) ==
    /\ recv_wakers' = [recv_wakers EXCEPT ![r] =
                         SomeWaker(futs[r][f].batch_idx, f)]
    /\ futs' = [futs EXCEPT ![r][f].st = "pending"]
    /\ UNCHANGED <<num_receivers, batches, finished, batch_idx, alive,
                   got, sent, poll_panic>>

\* A poll that registers its waker only in an empty entry: an entry another
\* future of the receiver left behind is kept.
PollNoSlotKeepFirst(r, f) ==
    IF finished
    THEN /\ Ready(r, f, EndOfStream)
         /\ UNCHANGED <<num_receivers, batches, recv_wakers, finished,
                        batch_idx, alive, sent, poll_panic>>
    ELSE /\ recv_wakers' = [recv_wakers EXCEPT ![r] =
                              IF @.some
                              THEN @
                              ELSE SomeWaker(futs[r][f].batch_idx, f)]
         /\ futs' = [futs EXCEPT ![r][f].st = "pending"]
         /\ UNCHANGED <<num_receivers, batches, finished, batch_idx, alive,
                        got, sent, poll_panic>>

\* RecvFut::poll, the arm None: the slot does not exist.
PollNoSlot(r, f) ==
    IF finished
    THEN /\ Ready(r, f, EndOfStream)
         /\ UNCHANGED <<num_receivers, batches, recv_wakers, finished,
                        batch_idx, alive, sent, poll_panic>>
    ELSE /\ recv_wakers' = [recv_wakers EXCEPT ![r] =
                              SomeWaker(futs[r][f].batch_idx, f)]
         /\ futs' = [futs EXCEPT ![r][f].st = "pending"]
         /\ UNCHANGED <<num_receivers, batches, finished, batch_idx, alive,
                        got, sent, poll_panic>>

\* RecvFut::poll for the f-th future of the receiver with subscribe_idx r.
poll(r, f) ==
    IF futs[r][f].batch_idx < Len(batches)
        THEN PollSlot(r, f)
        ELSE PollNoSlot(r, f)

(* ------------------------------ DataTable ------------------------------ *)

\* No table is being scanned.
NoTable ==
    /\ table_kind = "none"
    /\ num_partitions = 0
    /\ num_row_groups = 0
    /\ stream_len = 0
    /\ scan_result = "none"
    /\ scans = <<>>
    /\ stream_pos = <<>>
    /\ scan_state = <<>>
    /\ pulled = <<>>

\* vec![VecDeque::new(); num_partitions]
EmptyPartitions(n) == [p \in 1..n |-> <<>>]

\* A split into contiguous stripes instead of round-robin: the first
\* partition takes every row group.
SplitRowGroupsFirst(partitioned_row_groups, row_group, len) ==
    [p \in DOMAIN partitioned_row_groups |->
        IF p = 1 THEN [k \in 1..(len - row_group) |-> row_group + k - 1]
                 ELSE <<>>]

\* The loop `for row_group in 0..row_groups().len()` of
\* RowGroupPartitionedDataTable::scan, from row_group on.  The caller
\* excludes the division by zero.
RECURSIVE SplitRowGroups(_, _, _)
SplitRowGroups(partitioned_row_groups, row_group, len) ==
    IF row_group >= len
        THEN partitioned_row_groups
        ELSE LET partition == row_group % Len(partitioned_row_groups)
             IN  SplitRowGroups(
                     [partitioned_row_groups EXCEPT ![partition + 1] =
                          Append(@, row_group)],
                     row_group + 1, len)

\* The scans RowGroupPartitionedDataTable::scan builds from the readers, one
\* per entry of partitioned_row_groups.
RowGroupsScans(partitioned_row_groups) ==
    [p \in DOMAIN partitioned_row_groups |->
        [kind |-> "RowGroupsScan", row_groups |-> partitioned_row_groups[p]]]

\* Every partition gets a scan over its own COPY stream.
PostgresScansAllStream(n) ==
    <<[kind |-> "PostgresDataTableScan", row_groups |-> <<>>]>>
        \o [p \in 1..(n - 1) |->
                [kind |-> "PostgresDataTableScan", row_groups |-> <<>>]]

\* The scans PostgresDataTable::scan builds: the stream scan, then
\* (1..num_partitions) empty scans.
PostgresScans(n) ==
    <<[kind |-> "PostgresDataTableScan", row_groups |-> <<>>]>>
        \o [p \in 1..(n - 1) |-> [kind |-> "EmptyTableScan", row_groups |-> <<>>]]

\* The state of freshly returned scans.
Returned(result, ss) ==
    /\ scan_result' = result
    /\ scans' = ss
    /\ stream_pos' = [p \in DOMAIN ss |-> 0]
    /\ scan_state' = [p \in DOMAIN ss |-> "open"]
    /\ pulled' = [p \in DOMAIN ss |-> <<>>]
    /\ UNCHANGED <<table_kind, num_partitions, num_row_groups, stream_len>>

\* RowGroupPartitionedDataTable::scan(num_partitions); opened tells whether
\* file_source and AsyncBatchReader::try_new succeed for every partition.
ParquetScan(opened) ==
    IF num_partitions = 0 /\ num_row_groups > 0
    THEN \* `row_group % num_partitions` with a zero divisor
         Returned("panic", <<>>)
    ELSE IF num_partitions > 0 /\ ~opened
    THEN Returned("Err", <<>>)
    ELSE Returned("Ok", RowGroupsScans(
             SplitRowGroups(EmptyPartitions(num_partitions), 0, num_row_groups)))

\* PostgresDataTable::scan(num_partitions); the connection is opened lazily
\* by the stream, so the call itself does not fail.
PostgresScan == Returned("Ok", PostgresScans(num_partitions))

\* PostgresDataTableScan::poll_pull on scans[p]; item is what
\* stream.poll_next_unpin returns.
PostgresPollPull(p, item) ==
    /\ CASE item = "Batch" ->
                /\ stream_pos[p] < stream_len
                /\ stream_pos' = [stream_pos EXCEPT ![p] = @ + 1]
                /\ pulled' = [pulled EXCEPT ![p] = Append(@, stream_pos[p] + 1)]
                /\ UNCHANGED scan_state
         [] item = "Err" ->
                /\ scan_state' = [scan_state EXCEPT ![p] = "error"]
                /\ UNCHANGED <<stream_pos, pulled>>
         [] item = "None" ->
                /\ stream_pos[p] = stream_len
                /\ scan_state' = [scan_state EXCEPT ![p] = "exhausted"]
                /\ UNCHANGED <<stream_pos, pulled>>
         [] item = "Pending" ->
                UNCHANGED <<stream_pos, pulled, scan_state>>
    /\ UNCHANGED <<table_kind, num_partitions, num_row_groups, stream_len,
                   scan_result, scans>>

\* EmptyTableScan::poll_pull: exhausted at once, no batch.
EmptyPollPull(p) ==
    /\ scan_state' = [scan_state EXCEPT ![p] = "exhausted"]
    /\ UNCHANGED <<table_kind, num_partitions, num_row_groups, stream_len,
                   scan_result, scans, stream_pos, pulled>>

(* -------------------------------- concat ------------------------------- *)

\* Result<T>: a call that has not been made, Ok(v) and Err(RayexecError::new(msg)).
NotCalled == [status |-> "none", msg |-> "", value |-> <<>>]

Ok(v) == [status |-> "Ok", msg |-> "", value |-> <<v>>]

Err(m) == [status |-> "Err", msg |-> m, value |-> <<>>]

\* Option<&Bitmap>: None, and Some of a mask of bits.
NoValidity == [present |-> FALSE, bits |-> <<>>]

SomeValidity(b) == [present |-> TRUE, bits |-> b]

\* A value of enum Array.  kind is the variant; meta is the scale of a
\* decimal; len is the length of a Null or Struct array; values is the value
\* buffer (the strings of a varlen array, whose offsets follow from them);
\* offsets and child (<<>> or <<array>>) are those of a List array.
MkArray(kind, meta, len, values, validity, offsets, child) ==
    [kind |-> kind, meta |-> meta, len |-> len, values |-> values,
     validity |-> validity, offsets |-> offsets, child |-> child]

\* Array::len
ArrayLen(a) ==
    CASE a.kind \in {"Null", "Struct"} -> a.len
      [] a.kind = "List" -> Len(a.offsets) - 1
      [] OTHER -> Len(a.values)

\* Array::datatype
RECURSIVE Datatype(_)
Datatype(a) ==
    [kind |-> a.kind, meta |-> a.meta,
     child |-> IF a.kind = "List" THEN <<Datatype(a.child[1])>> ELSE <<>>]

\* Iterator::flatten over a sequence of sequences.
RECURSIVE Flatten(_)
Flatten(ss) == IF ss = <<>> THEN <<>> ELSE ss[1] \o Flatten(Tail(ss))

\* Iterator::sum over a sequence of numbers.
RECURSIVE Sum(_)
Sum(ns) == IF ns = <<>> THEN 0 ELSE ns[1] + Sum(Tail(ns))

\* collect_arrays_of_type!(arrays, Variant, datatype): succeeds when every
\* array is of the variant.
collect_arrays_of_type(arrs, variant) ==
    \A i \in DOMAIN arrs : arrs[i].kind = variant

\* concat_validities over the (len, validity) pairs of arrs.
concat_validities(arrs) ==
    IF \A i \in DOMAIN arrs : ~arrs[i].validity.present
    THEN NoValidity
    ELSE SomeValidity(Flatten(
             [i \in DOMAIN arrs |->
                 IF arrs[i].validity.present
                 THEN arrs[i].validity.bits
                 ELSE [k \in 1..ArrayLen(arrs[i]) |-> TRUE]]))

\* The values of the last array come first.
ConcatValuesReversed(arrs) ==
    Flatten([i \in DOMAIN arrs |-> arrs[Len(arrs) + 1 - i].values])

\* arrays.iter().flat_map(values): the values of every array, one after the
\* other.
ConcatValues(arrs) == Flatten([i \in DOMAIN arrs |-> arrs[i].values])

\* The result keeps the validity of the first array only.
concat_primitive_first_validity(kind, meta, arrs) ==
    MkArray(kind, meta, 0, ConcatValues(arrs), arrs[1].validity, <<>>, <<>>)

\* concat_boolean, concat_primitive and concat_varlen: the validities are
\* concatenated, the values are chained, and the caller wraps the result in
\* the variant of the first array.
concat_primitive(kind, meta, arrs) ==
    MkArray(kind, meta, 0, ConcatValues(arrs), concat_validities(arrs),
            <<>>, <<>>)

\* The base of an array is the last offset of the array before it alone,
\* not the last offset emitted so far.
RECURSIVE ListOffsetsNoCarry(_, _, _, _)
ListOffsetsNoCarry(new_offsets, start, arrs, k) ==
    IF k > Len(arrs)
    THEN new_offsets
    ELSE LET offset == arrs[k].offsets
             extended == new_offsets \o
                 [j \in 1..(Len(offset) - 1) |-> offset[j + 1] + start]
         IN  ListOffsetsNoCarry(extended, offset[Len(offset)], arrs, k + 1)

\* The loop of concat_list over the offsets of arrs, from array k on.
RECURSIVE ListOffsets(_, _, _, _)
ListOffsets(new_offsets, start, arrs, k) ==
    IF k > Len(arrs)
    THEN new_offsets
    ELSE LET offset == arrs[k].offsets
             extended == new_offsets \o
                 [j \in 1..(Len(offset) - 1) |-> offset[j + 1] + start]
         IN  ListOffsets(extended, extended[Len(extended)], arrs, k + 1)

RECURSIVE concat(_)

\* The children are not concatenated through concat: the result takes the
\* child of the first array whatever the others hold.
concat_list_first_child(arrs) ==
    Ok(MkArray("List", 0, 0, <<>>, concat_validities(arrs),
               ListOffsets(<<0>>, 0, arrs, 1), arrs[1].child))

\* concat_list
concat_list(arrs) ==
    LET validity == concat_validities(arrs)
        inners == [i \in DOMAIN arrs |-> arrs[i].child[1]]
        concat_inner == concat(inners)
    IN  IF concat_inner.status = "Err"
        THEN concat_inner
        ELSE Ok(MkArray("List", 0, 0, <<>>, validity,
                        ListOffsets(<<0>>, 0, arrs, 1), concat_inner.value))

\* concat
concat(arrs) ==
    IF arrs = <<>>
    THEN Err("Cannot concat zero arrays")
    ELSE LET datatype == arrs[1].kind
         IN  IF datatype = "Struct"
             THEN Err("Not yet implemented: struct concat")
             ELSE IF ~collect_arrays_of_type(arrs, datatype)
             THEN Err("Array is not of the expected type")
             ELSE CASE datatype = "Null" ->
                         Ok(MkArray("Null", 0,
                                Sum([i \in DOMAIN arrs |-> arrs[i].len]),
                                <<>>, NoValidity, <<>>, <<>>))
                    [] datatype = "List" -> concat_list(arrs)
                    [] OTHER ->
                         Ok(concat_primitive(datatype, arrs[1].meta, arrs))

\* Batch::empty and Batch::try_new(cols): the columns must agree in length.
EmptyBatch == [cols |-> <<>>, num_rows |-> 0]

try_new(cols) ==
    IF cols = <<>>
    THEN Ok(EmptyBatch)
    ELSE IF \E i \in DOMAIN cols : ArrayLen(cols[i]) # ArrayLen(cols[1])
    THEN Err("Expected all arrays in a batch to have the same length")
    ELSE Ok([cols |-> cols, num_rows |-> ArrayLen(cols[1])])

\* The loop `for col_idx in 0..num_cols` of concat_batches, from col_idx on;
\* column k of a batch is cols[k + 1].
RECURSIVE ConcatColumns(_, _, _, _)
ConcatColumns(bs, num_cols, col_idx, concatted) ==
    IF col_idx >= num_cols
    THEN try_new(concatted)
    ELSE IF \E i \in DOMAIN bs : Len(bs[i].cols) <= col_idx
    THEN Err("Missing column")
    ELSE LET cols == [i \in DOMAIN bs |-> bs[i].cols[col_idx + 1]]
             out == concat(cols)
         IN  IF out.status = "Err"
             THEN out
             ELSE ConcatColumns(bs, num_cols, col_idx + 1,
                                Append(concatted, out.value[1]))

\* An empty list of batches is refused, as an empty list of arrays is.
concat_batches_empty_err(bs) ==
    IF bs = <<>>
    THEN Err("Cannot concat zero batches")
    ELSE ConcatColumns(bs, Len(bs[1].cols), 0, <<>>)

\* concat_batches
concat_batches(bs) ==
    IF bs = <<>>
    THEN Ok(EmptyBatch)
    ELSE ConcatColumns(bs, Len(bs[1].cols), 0, <<>>)

\* No concat is being made.
NoConcat ==
    /\ arrays = <<>>
    /\ concat_out = NotCalled
    /\ nested_out = [left |-> NotCalled, right |-> NotCalled]
    /\ batch_list = <<>>
    /\ batches_out = NotCalled

(* ------------------------------- planner ------------------------------- *)

\* ast::Expr.  expr is the variant; ok tells whether the leaf's own planner
\* (plan_ident, plan_idents, plan_literal) or the operator's conversion
\* (op.try_into) succeeds; args are the operands of a BinaryExpr.
MkExpr(expr, ok, args) == [expr |-> expr, ok |-> ok, args |-> args]

\* How a call ends: it returns Ok or Err, or the thread panics.  The first of
\* a sequence of calls that does not return Ok ends the caller.
FirstFailure(outs) ==
    IF \A i \in DOMAIN outs : outs[i] = "Ok"
    THEN "Ok"
    ELSE outs[CHOOSE i \in DOMAIN outs :
                  /\ outs[i] # "Ok"
                  /\ \A j \in 1..(i - 1) : outs[j] = "Ok"]

\* ExpressionContext::plan_expression
RECURSIVE plan_expression(_)
plan_expression(e) ==
    CASE e.expr \in {"Ident", "CompoundIdent", "Literal"} ->
            IF e.ok THEN "Ok" ELSE "Err"
      [] e.expr = "BinaryExpr" ->
            IF ~e.ok
            THEN "Err"
            ELSE FirstFailure(<<plan_expression(e.args[1]),
                                plan_expression(e.args[2])>>)
      [] OTHER -> "panic"     \* _ => unimplemented!()

\* The LogicalExpression that plan_expression returns for an expression it
\* accepts.
RECURSIVE LogicalExpression(_)
LogicalExpression(e) ==
    [variant |-> CASE e.expr \in {"Ident", "CompoundIdent"} -> "ColumnRef"
                   [] e.expr = "Literal" -> "Literal"
                   [] e.expr = "BinaryExpr" -> "Binary"
                   [] OTHER -> "none",
     args |-> [i \in DOMAIN e.args |-> LogicalExpression(e.args[i])]]

\* A call that did not return: the thread panicked.
Panic == [status |-> "panic", msg |-> "", value |-> <<>>]

\* format!("column{}", i + 1)
ColumnName(i) == <<"column", i + 1>>

\* LogicalOperator::ExpressionList(ExpressionList { rows })
ExpressionList(rows) == [operator |-> "ExpressionList", rows |-> rows]

\* LogicalQuery { root, scope }
LogicalQuery(root, scope) == [root |-> root, scope |-> scope]

\* PlanContext::plan_values.  The scope gets its columns from
\* scope.add_columns(None, ..): items without a table reference.
plan_values(rows) ==
    IF rows = <<>>
    THEN Err("Empty VALUES expression")
    ELSE LET num_cols == Len(rows[1])
             outcome == FirstFailure(Flatten(
                 [r \in DOMAIN rows |->
                     [c \in DOMAIN rows[r] |-> plan_expression(rows[r][c])]]))
             exprs == [r \in DOMAIN rows |->
                          [c \in DOMAIN rows[r] |->
                              LogicalExpression(rows[r][c])]]
             scope == [i \in 1..num_cols |->
                          [alias |-> <<>>, column |-> ColumnName(i - 1)]]
         IN  CASE outcome = "Ok" ->
                     Ok(LogicalQuery(ExpressionList(exprs), scope))
               [] outcome = "Err" -> Err("plan_expression")
               [] OTHER -> Panic

\* The arguments of a table function: each is planned and must come out as a
\* literal.
PlanFunctionArg(arg) ==
    LET out == plan_expression(arg)
    IN  IF out = "Ok" /\ arg.expr # "Literal" THEN "Err" ELSE out

RECURSIVE plan_query(_)

\* PlanContext::plan_from_node; alias_fits tells whether apply_alias accepts
\* the alias of the node.
plan_from_node(from) ==
    CASE from.body \in {"BaseTable", "Join"} -> "panic"   \* unimplemented!()
      [] from.body = "Subquery" ->
            FirstFailure(<<plan_query(from.query[1]),
                           IF from.alias_fits THEN "Ok" ELSE "Err">>)
      [] from.body = "TableFunction" ->
            FirstFailure(
                <<IF from.resolves THEN "Ok" ELSE "Err">>
                \o [a \in DOMAIN from.args |-> PlanFunctionArg(from.args[a])]
                \o <<IF from.binds THEN "Ok" ELSE "Err",
                     IF from.alias_fits THEN "Ok" ELSE "Err">>)

\* PlanContext::plan_select: FROM, then WHERE, then the projections; a
\* wildcard expands to column references and plans no expression.
plan_select(select) ==
    FirstFailure(
        [i \in DOMAIN select.from |-> plan_from_node(select.from[i])]
        \o [i \in DOMAIN select.where_expr |->
                plan_expression(select.where_expr[i])]
        \o [i \in DOMAIN select.projections |->
                IF select.projections[i].expr = "Wildcard"
                THEN "Ok"
                ELSE plan_expression(select.projections[i])])

\* PlanContext::plan_query
plan_query(query) ==
    CASE query.body = "Select" -> plan_select(query)
      [] query.body = "Set" -> "panic"                    \* unimplemented!()
      [] query.body = "Values" -> plan_values(query.rows).status

\* PlanContext::plan_statement
plan_statement(stmt) ==
    IF stmt.stmt = "Query"
    THEN plan_query(stmt.query[1])
    ELSE "panic"                                          \* _ => unimplemented!()

\* No statement is being planned.
NoStatement == [stmt |-> "none", query |-> <<>>]

NoPlan == statement = NoStatement /\ plan_out = "none"

(* -------------------------- planner: literals -------------------------- *)

\* A text is a sequence of characters, each a string of length 1.
Digits == <<"0", "1", "2", "3", "4", "5", "6", "7", "8", "9">>

DigitSet == {Digits[i] : i \in DOMAIN Digits}

DigitValue(c) == (CHOOSE i \in DOMAIN Digits : Digits[i] = c) - 1

\* i64::MAX, the magnitude of i64::MIN, and u64::MAX in decimal.
I64Max ==
    <<"9", "2", "2", "3", "3", "7", "2", "0", "3", "6", "8", "5", "4", "7",
      "7", "5", "8", "0", "7">>

I64MinMagnitude ==
    <<"9", "2", "2", "3", "3", "7", "2", "0", "3", "6", "8", "5", "4", "7",
      "7", "5", "8", "0", "8">>

U64Max ==
    <<"1", "8", "4", "4", "6", "7", "4", "4", "0", "7", "3", "7", "0", "9",
      "5", "5", "1", "6", "1", "5">>

AllDigits(s) == \A i \in DOMAIN s : s[i] \in DigitSet

\* The digits without their leading zeros; one digit is always left.
RECURSIVE StripZeros(_)
StripZeros(s) ==
    IF Len(s) > 1 /\ s[1] = "0" THEN StripZeros(Tail(s)) ELSE s

\* a <= b for two decimal numbers without leading zeros.
MagnitudeLeq(a, b) ==
    \/ Len(a) < Len(b)
    \/ /\ Len(a) = Len(b)
       /\ \/ a = b
          \/ \E i \in DOMAIN a :
                /\ \A j \in 1..(i - 1) : a[j] = b[j]
                /\ DigitValue(a[i]) < DigitValue(b[i])

\* The position of the first c in s, 0 when there is none.
IndexOf(s, c) ==
    IF \E i \in DOMAIN s : s[i] = c
    THEN CHOOSE i \in DOMAIN s : s[i] = c /\ \A j \in 1..(i - 1) : s[j] # c
    ELSE 0

\* ScalarValue: the variant, and the value as sign, digits (or text),
\* fraction digits and exponent.
ScalarValue(type, neg, repr, frac, exp) ==
    [type |-> type, neg |-> neg, repr |-> repr, frac |-> frac, exp |-> exp]

\* str::parse::<i64>: an optional sign, then at least one digit, and a value
\* within i64::MIN..=i64::MAX.
parse_i64(n) ==
    LET signed == n # <<>> /\ n[1] \in {"+", "-"}
        neg == n # <<>> /\ n[1] = "-"
        body == IF signed THEN Tail(n) ELSE n
    IN  IF body = <<>> \/ ~AllDigits(body)
        THEN Err("invalid digit found in string")
        ELSE IF MagnitudeLeq(StripZeros(body),
                             IF neg THEN I64MinMagnitude ELSE I64Max)
        THEN Ok(ScalarValue("Int64", neg /\ StripZeros(body) # <<"0">>,
                            StripZeros(body), <<>>, <<>>))
        ELSE Err("number too large or too small to fit in target type")

\* str::parse::<u64>: an optional "+", then at least one digit, and a value
\* of at most u64::MAX; a "-" is an invalid digit.
parse_u64(n) ==
    LET signed == n # <<>> /\ n[1] = "+"
        body == IF signed THEN Tail(n) ELSE n
    IN  IF body = <<>> \/ ~AllDigits(body)
        THEN Err("invalid digit found in string")
        ELSE IF MagnitudeLeq(StripZeros(body), U64Max)
        THEN Ok(ScalarValue("UInt64", FALSE, StripZeros(body), <<>>, <<>>))
        ELSE Err("number too large or too small to fit in target type")

\* str::parse::<f64>: an optional sign, then inf, infinity, nan, or a decimal
\* number with at least one digit around an optional point and an optional
\* exponent of at least one digit; no size is too large.
parse_f64(n) ==
    LET signed == n # <<>> /\ n[1] \in {"+", "-"}
        neg == n # <<>> /\ n[1] = "-"
        body == IF signed THEN Tail(n) ELSE n
        epos == IndexOf(body, "e")
        mant == IF epos = 0 THEN body ELSE SubSeq(body, 1, epos - 1)
        exp == IF epos = 0 THEN <<>> ELSE SubSeq(body, epos + 1, Len(body))
        expsigned == exp # <<>> /\ exp[1] \in {"+", "-"}
        expdigits == IF expsigned THEN Tail(exp) ELSE exp
        dot == IndexOf(mant, ".")
        int == IF dot = 0 THEN mant ELSE SubSeq(mant, 1, dot - 1)
        frac == IF dot = 0 THEN <<>> ELSE SubSeq(mant, dot + 1, Len(mant))
    IN  IF body \in {<<"i", "n", "f">>, <<"n", "a", "n">>,
                     <<"i", "n", "f", "i", "n", "i", "t", "y">>}
        THEN Ok(ScalarValue("Float64", neg, body, <<>>, <<>>))
        ELSE IF /\ AllDigits(int)
                /\ AllDigits(frac)
                /\ int # <<>> \/ frac # <<>>
                /\ epos # 0 => expdigits # <<>> /\ AllDigits(expdigits)
        THEN Ok(ScalarValue("Float64", neg, int, frac, exp))
        ELSE Err("invalid float literal")

\* ast::Literal: the variant and its text; a Boolean holds <<"true">> or
\* <<"false">>.
MkLiteral(kind, text) == [kind |-> kind, text |-> text]

\* A plan_literal that tries the unsigned parse before the signed one.
plan_literal_unsigned_first(literal) ==
    CASE literal.kind = "Number" ->
            LET n == literal.text
            IN  IF parse_u64(n).status = "Ok" THEN parse_u64(n)
                ELSE IF parse_i64(n).status = "Ok" THEN parse_i64(n)
                ELSE IF parse_f64(n).status = "Ok" THEN parse_f64(n)
                ELSE Err("Unable to parse {n} as a number")
      [] literal.kind = "Boolean" ->
            Ok(ScalarValue("Boolean", FALSE, literal.text, <<>>, <<>>))
      [] literal.kind = "Null" ->
            Ok(ScalarValue("Null", FALSE, <<>>, <<>>, <<>>))
      [] literal.kind = "SingleQuotedString" ->
            Ok(ScalarValue("Utf8", FALSE, literal.text, <<>>, <<>>))
      [] OTHER -> Err("Unusupported SQL literal: {other:?}")

\* ExpressionContext::plan_literal; the result is the ScalarValue inside
\* LogicalExpression::Literal.
plan_literal(literal) ==
    CASE literal.kind = "Number" ->
            LET n == literal.text
            IN  IF parse_i64(n).status = "Ok" THEN parse_i64(n)
                ELSE IF parse_u64(n).status = "Ok" THEN parse_u64(n)
                ELSE IF parse_f64(n).status = "Ok" THEN parse_f64(n)
                ELSE Err("Unable to parse {n} as a number")
      [] literal.kind = "Boolean" ->
            Ok(ScalarValue("Boolean", FALSE, literal.text, <<>>, <<>>))
      [] literal.kind = "Null" ->
            Ok(ScalarValue("Null", FALSE, <<>>, <<>>, <<>>))
      [] literal.kind = "SingleQuotedString" ->
            Ok(ScalarValue("Utf8", FALSE, literal.text, <<>>, <<>>))
      [] OTHER -> Err("Unusupported SQL literal: {other:?}")

(* --------------------------- planner: aliases -------------------------- *)

\* TableReference { database: None, schema: None, table }.  An Option is a
\* sequence of at most one element: <<>> is None, <<x>> is Some(x).
TableReference(table) == [database |-> <<>>, schema |-> <<>>, table |-> table]

\* An item of Scope.items: its Option<TableReference> and its column name.
ScopeItem(alias, column) == [alias |-> alias, column |-> column]

\* ast::FromAlias { alias, columns }
FromAlias(alias, columns) == [alias |-> alias, columns |-> columns]

\* An apply_alias that refuses as many column aliases as there are columns.
apply_alias_at_least(scope, alias) ==
    IF alias = <<>>
    THEN Ok(scope)
    ELSE LET reference == TableReference(alias[1].alias)
             tabled == [i \in DOMAIN scope |->
                           [scope[i] EXCEPT !.alias = <<reference>>]]
         IN  IF alias[1].columns = <<>>
             THEN Ok(tabled)
             ELSE LET columns == alias[1].columns[1]
                  IN  IF Len(columns) >= Len(scope)
                      THEN Err("Specified {} column aliases when only {} columns exist")
                      ELSE Ok([i \in DOMAIN tabled |->
                                  IF i <= Len(columns)
                                  THEN [tabled[i] EXCEPT !.column = columns[i]]
                                  ELSE tabled[i]])

\* PlanContext::apply_alias.  The zip of the items with the column aliases
\* stops at the shorter of the two.
apply_alias(scope, alias) ==
    IF alias = <<>>
    THEN Ok(scope)
    ELSE LET reference == TableReference(alias[1].alias)
             tabled == [i \in DOMAIN scope |->
                           [scope[i] EXCEPT !.alias = <<reference>>]]
         IN  IF alias[1].columns = <<>>
             THEN Ok(tabled)
             ELSE LET columns == alias[1].columns[1]
                  IN  IF Len(columns) > Len(scope)
                      THEN Err("Specified {} column aliases when only {} columns exist")
                      ELSE Ok([i \in DOMAIN tabled |->
                                  IF i <= Len(columns)
                                  THEN [tabled[i] EXCEPT !.column = columns[i]]
                                  ELSE tabled[i]])

\* No planner function is being called on its own.
NoPlanning ==
    /\ literal_in = MkLiteral("none", <<>>)
    /\ literal_out = NotCalled
    /\ scope_in = <<>>
    /\ alias_in = <<>>
    /\ alias_out = NotCalled
    /\ values_in = <<>>
    /\ values_out = NotCalled

(* --------------------- the channel's users: any order ------------------ *)

Init ==
    \E n \in 0..MaxReceivers :
        /\ new(n)
        /\ got = [r \in 0..(n - 1) |-> <<>>]
        /\ sent = <<>>
        /\ poll_panic = FALSE
        /\ NoPlanning
        /\ NoTable
        /\ NoConcat
        /\ NoPlan

Send ==
    /\ Len(sent) < MaxSends
    /\ send(NextBatch)
    /\ sent' = Append(sent, NextBatch)
    /\ UNCHANGED <<svars, cvars, pvars>>

Finish == finish /\ UNCHANGED <<svars, cvars, pvars>>

\* The number of recv calls made so far by receivers 0..n-1.
RECURSIVE RecvCalls(_)
RecvCalls(n) == IF n = 0 THEN 0 ELSE batch_idx[n - 1] + RecvCalls(n - 1)

Recv ==
    \E r \in Receivers :
        /\ alive[r]
        /\ RecvCalls(num_receivers) < MaxRecvCalls
        /\ recv(r)
        /\ UNCHANGED <<svars, cvars, pvars>>

Poll ==
    \E r \in Receivers : \E f \in DOMAIN futs[r] :
        /\ futs[r][f].st \in Unresolved
        /\ poll(r, f)
        /\ UNCHANGED <<svars, cvars, pvars>>

\* Dropping a RecvFut: it has no Drop impl, its waker entry stays behind.
DropFut ==
    \E r \in Receivers : \E f \in DOMAIN futs[r] :
        /\ futs[r][f].st \in Unresolved
        /\ futs' = [futs EXCEPT ![r][f].st = "dropped"]
        /\ UNCHANGED <<num_receivers, batches, recv_wakers, finished,
                       batch_idx, alive, got, sent, poll_panic>>
        /\ UNCHANGED <<svars, cvars, pvars>>

\* A Drop impl that walks the slots: the dropped receiver gives up its share
\* of every slot it has not consumed.
DropReceiverReleasing ==
    \E r \in Receivers :
        /\ alive[r]
        /\ alive' = [alive EXCEPT ![r] = FALSE]
        /\ batches' =
              [i \in DOMAIN batches |->
                  IF batches[i].remaining_recv > 0
                     /\ \A k \in DOMAIN got[r] : got[r][k].idx # i - 1
                  THEN [remaining_recv |-> batches[i].remaining_recv - 1,
                        batch |-> IF batches[i].remaining_recv = 1
                                    THEN NoBatch ELSE batches[i].batch]
                  ELSE batches[i]]
        /\ UNCHANGED <<num_receivers, recv_wakers, finished, batch_idx, futs,
                       got, sent, poll_panic>>
        /\ UNCHANGED <<svars, cvars, pvars>>

\* Dropping a BroadcastReceiver: it has no Drop impl; its futures hold their
\* own reference to the state and outlive it.
DropReceiver ==
    \E r \in Receivers :
        /\ alive[r]
        /\ alive' = [alive EXCEPT ![r] = FALSE]
        /\ UNCHANGED <<num_receivers, batches, recv_wakers, finished,
                       batch_idx, futs, got, sent, poll_panic>>
        /\ UNCHANGED <<svars, cvars, pvars>>

Next == Send \/ Finish \/ Recv \/ Poll \/ DropFut \/ DropReceiver

Spec == Init /\ [][Next]_vars

(* ------- the channel's users: K sends, finish, receivers in order ------- *)

\* The receiver has obtained end-of-stream.
AtEnd(r) == \E k \in DOMAIN got[r] : got[r][k].out = EndOfStream

SendInOrder == ~finished /\ Send

FinishOnce ==
    ~finished /\ finish /\ UNCHANGED <<svars, cvars, pvars>>

\* recv is called again only once the previous future has resolved, and not
\* after end-of-stream.
RecvInOrder ==
    \E r \in Receivers :
        /\ \A f \in DOMAIN futs[r] : futs[r][f].st = "ready"
        /\ ~AtEnd(r)
        /\ recv(r)
        /\ UNCHANGED <<svars, cvars, pvars>>

NextInOrder == SendInOrder \/ FinishOnce \/ RecvInOrder \/ Poll

SpecInOrder == Init /\ [][NextInOrder]_vars

(* --- the channel's users: receivers in order, sends also after finish --- *)

SendLate == finished /\ Send

NextLateSend == SendInOrder \/ SendLate \/ FinishOnce \/ RecvInOrder \/ Poll

SpecLateSend == Init /\ [][NextLateSend]_vars

(* ---- the channel's users: receivers in order, run by a fair executor --- *)

\* The receiver's task asks for its next batch once the previous future has
\* resolved, until it has seen end-of-stream.
RecvLive(r) ==
    /\ r \in Receivers
    /\ \A f \in DOMAIN futs[r] : futs[r][f].st = "ready"
    /\ ~AtEnd(r)
    /\ recv(r)
    /\ UNCHANGED <<svars, cvars, pvars>>

\* The executor polls a task's future when it is created and again after its
\* waker was woken; a parked future is not polled.
PollLive(r) ==
    /\ r \in Receivers
    /\ \E f \in DOMAIN futs[r] :
           /\ futs[r][f].st \in {"new", "woken"}
           /\ poll(r, f)
           /\ UNCHANGED <<svars, cvars, pvars>>

RecvAnyLive == \E r \in 0..(MaxReceivers - 1) : RecvLive(r)

PollAnyLive == \E r \in 0..(MaxReceivers - 1) : PollLive(r)

NextLive == SendInOrder \/ FinishOnce \/ RecvAnyLive \/ PollAnyLive

\* The producer reaches its finish; every receiver task is scheduled when it
\* can run.
SpecLive ==
    /\ Init
    /\ [][NextLive]_vars
    /\ WF_vars(FinishOnce)
    /\ \A r \in 0..(MaxReceivers - 1) :
           WF_vars(RecvLive(r)) /\ WF_vars(PollLive(r))

(* ------------------------- scanning a data table ----------------------- *)

InitScan ==
    /\ new(0)
    /\ got = <<>>
    /\ sent = <<>>
    /\ poll_panic = FALSE
    /\ NoPlanning
    /\ table_kind \in {"parquet", "postgres"}
    /\ num_partitions \in 0..MaxPartitions
    /\ num_row_groups \in 0..MaxRowGroups
    /\ stream_len \in 0..MaxStream
    /\ table_kind = "parquet" => stream_len = 0
    /\ table_kind = "postgres" => num_row_groups = 0
    /\ scan_result = "none"
    /\ scans = <<>>
    /\ stream_pos = <<>>
    /\ scan_state = <<>>
    /\ pulled = <<>>
    /\ NoConcat
    /\ NoPlan

ScanParquet ==
    /\ table_kind = "parquet"
    /\ scan_result = "none"
    /\ \E opened \in BOOLEAN : ParquetScan(opened)
    /\ UNCHANGED <<bvars, cvars, pvars>>

ScanPostgres ==
    /\ table_kind = "postgres"
    /\ scan_result = "none"
    /\ PostgresScan
    /\ UNCHANGED <<bvars, cvars, pvars>>

\* The driver polls a scan until it is exhausted or fails.
PullPostgres ==
    \E p \in DOMAIN scans : \E item \in {"Batch", "Err", "None", "Pending"} :
        /\ scans[p].kind = "PostgresDataTableScan"
        /\ scan_state[p] = "open"
        /\ PostgresPollPull(p, item)
        /\ UNCHANGED <<bvars, cvars, pvars>>

PullEmpty ==
    \E p \in DOMAIN scans :
        /\ scans[p].kind = "EmptyTableScan"
        /\ scan_state[p] = "open"
        /\ EmptyPollPull(p)
        /\ UNCHANGED <<bvars, cvars, pvars>>

NextScan == ScanParquet \/ ScanPostgres \/ PullPostgres \/ PullEmpty

SpecScan == InitScan /\ [][NextScan]_vars

(* --------------------------- concatenating arrays ---------------------- *)

\* The i-th value of the j-th input: every value of a run is told apart.
Token(j, i) == 10 * j + i

\* The validities an array of n values can carry.
Validities(n) ==
    {NoValidity} \cup {SomeValidity(b) : b \in [1..n -> BOOLEAN]}

\* Boolean, primitive, decimal (two scales) and varlen arrays of up to
\* MaxLen values.
ValuedTypes ==
    {[kind |-> "Boolean", meta |-> 0], [kind |-> "Int64", meta |-> 0],
     [kind |-> "Decimal64", meta |-> 1], [kind |-> "Decimal64", meta |-> 2],
     [kind |-> "Utf8", meta |-> 0]}

ValuedArrays(j) ==
    UNION {UNION {{MkArray(t.kind, t.meta, 0,
                       [i \in 1..n |-> IF t.kind = "Boolean"
                                       THEN i % 2 = 1 ELSE Token(j, i)],
                       v, <<>>, <<>>) : v \in Validities(n)}
                  : n \in 0..MaxLen}
           : t \in ValuedTypes}

\* Null and Struct arrays of up to MaxLen rows.
SizedArrays ==
    {MkArray(kind, 0, n, <<>>, NoValidity, <<>>, <<>>) :
        kind \in {"Null", "Struct"}, n \in 0..MaxLen}

\* The child of a list array: up to MaxLen values.
ChildArrays(j) ==
    {MkArray(kind, 0, 0, [i \in 1..c |-> 100 + Token(j, i)], NoValidity,
             <<>>, <<>>) : kind \in {"Int64", "Utf8"}, c \in 0..MaxLen}

\* The offsets of n lists over a child of c values: n + 1 entries from 0 on,
\* non-decreasing, within [0, c].
OffsetsOver(n, c) ==
    {o \in [1..(n + 1) -> 0..c] :
        o[1] = 0 /\ \A i \in 1..n : o[i] <= o[i + 1]}

\* List arrays of up to MaxLen lists, without a validity or with every
\* second list null.
ListArrays(j) ==
    UNION {UNION {{MkArray("List", 0, 0, <<>>, v, o, <<ch>>) :
                       o \in OffsetsOver(n, ArrayLen(ch)),
                       v \in {NoValidity,
                              SomeValidity([k \in 1..n |-> k % 2 = 1])}}
                  : n \in 0..MaxLen}
           : ch \in ChildArrays(j)}

Arrays(j) == ValuedArrays(j) \cup SizedArrays \cup ListArrays(j)

Kinds == {"Null", "Boolean", "Int64", "Decimal64", "Utf8", "Struct", "List"}

OfKind(j, kind) == {a \in Arrays(j) : a.kind = kind}

\* The argument lists: up to two arrays of any variant, or three arrays of
\* one variant.
ArrayLists(as) ==
    \/ as = <<>>
    \/ \E a \in Arrays(1) : as = <<a>>
    \/ \E a \in Arrays(1), b \in Arrays(2) : as = <<a, b>>
    \/ \E kind \in Kinds :
           \E a \in OfKind(1, kind), b \in OfKind(2, kind),
              c \in OfKind(3, kind) : as = <<a, b, c>>

InitConcat ==
    /\ new(0)
    /\ got = <<>>
    /\ sent = <<>>
    /\ poll_panic = FALSE
    /\ NoPlanning
    /\ NoTable
    /\ NoPlan
    /\ ArrayLists(arrays)
    /\ concat_out = NotCalled
    /\ nested_out = [left |-> NotCalled, right |-> NotCalled]
    /\ batch_list = <<>>
    /\ batches_out = NotCalled

\* concat(&[a, b]) where a is itself the outcome of a concat.
ConcatAfter(a, b) ==
    IF a.status = "Err" THEN a ELSE concat(<<a.value[1], b>>)

\* concat(&[a, b]) where b is itself the outcome of a concat.
ConcatBefore(a, b) ==
    IF b.status = "Err" THEN b ELSE concat(<<a, b.value[1]>>)

Concat ==
    /\ concat_out = NotCalled
    /\ concat_out' = concat(arrays)
    /\ UNCHANGED <<arrays, nested_out, batch_list, batches_out, statement,
                   plan_out>>
    /\ UNCHANGED <<bvars, svars, pvars>>

\* The same three arrays concatenated in two steps, from the left and from
\* the right.
ConcatNested ==
    /\ concat_out # NotCalled
    /\ Len(arrays) = 3
    /\ nested_out.left = NotCalled
    /\ nested_out' =
          [left |-> ConcatAfter(concat(<<arrays[1], arrays[2]>>), arrays[3]),
           right |-> ConcatBefore(arrays[1], concat(<<arrays[2], arrays[3]>>))]
    /\ UNCHANGED <<arrays, concat_out, batch_list, batches_out, statement,
                   plan_out>>
    /\ UNCHANGED <<bvars, svars, pvars>>

NextConcat == Concat \/ ConcatNested

SpecConcat == InitConcat /\ [][NextConcat]_vars

(* --------------------------- concatenating batches --------------------- *)

\* The batches of up to MaxCols columns and up to MaxLen rows; a batch
\* without columns has no rows.
Batches(j) ==
    {EmptyBatch} \cup
    UNION {UNION {{[cols |-> [c \in 1..w |->
                        MkArray(kinds[c], 0, 0,
                                [i \in 1..n |-> 100 * c + Token(j, i)],
                                NoValidity, <<>>, <<>>)],
                    num_rows |-> n] : kinds \in [1..w -> {"Int64", "Utf8"}]}
                  : n \in 0..MaxLen}
           : w \in 1..MaxCols}

InitConcatBatches ==
    /\ new(0)
    /\ got = <<>>
    /\ sent = <<>>
    /\ poll_panic = FALSE
    /\ NoPlanning
    /\ NoTable
    /\ NoPlan
    /\ arrays = <<>>
    /\ concat_out = NotCalled
    /\ nested_out = [left |-> NotCalled, right |-> NotCalled]
    /\ batch_list \in {<<>>}
          \cup {<<a>> : a \in Batches(1)}
          \cup {<<a, b>> : a \in Batches(1), b \in Batches(2)}
          \cup {<<a, b, c>> : a \in Batches(1), b \in Batches(2),
                              c \in Batches(3)}
    /\ batches_out = NotCalled

ConcatBatches ==
    /\ batches_out = NotCalled
    /\ batches_out' = concat_batches(batch_list)
    /\ UNCHANGED <<arrays, concat_out, nested_out, batch_list, statement,
                   plan_out>>
    /\ UNCHANGED <<bvars, svars, pvars>>

\* Both functions are called, concat on the empty list.
NextConcatBatches == ConcatBatches \/ Concat

SpecConcatBatches == InitConcatBatches /\ [][NextConcatBatches]_vars

(* --------------------------- planning a statement ---------------------- *)

LeafExprs ==
    {MkExpr("Ident", ok, <<>>) : ok \in BOOLEAN}
    \cup {MkExpr("Literal", ok, <<>>) : ok \in BOOLEAN}
    \cup {MkExpr("CompoundIdent", TRUE, <<>>), MkExpr("Function", TRUE, <<>>)}

Exprs ==
    LeafExprs \cup {MkExpr("BinaryExpr", ok, <<l, r>>) :
                        ok \in BOOLEAN, l \in LeafExprs, r \in LeafExprs}

MkQuery(body, from, where_expr, projections, rows) ==
    [body |-> body, from |-> from, where_expr |-> where_expr,
     projections |-> projections, rows |-> rows]

MkFrom(body, query, args, resolves, binds, alias_fits) ==
    [body |-> body, query |-> query, args |-> args, resolves |-> resolves,
     binds |-> binds, alias_fits |-> alias_fits]

\* SELECT lists of at most one item.
Projections ==
    {<<>>, <<MkExpr("Wildcard", TRUE, <<>>)>>} \cup {<<e>> : e \in LeafExprs}

Wheres == {<<>>} \cup {<<e>> : e \in LeafExprs}

Selects(froms) ==
    {MkQuery("Select", f, w, p, <<>>) :
        f \in froms, w \in Wheres, p \in Projections}

\* The query bodies without a FROM clause: a set operation, VALUES with no
\* row or with one row of one expression, and SELECT.
InnerQueries ==
    {MkQuery("Set", <<>>, <<>>, <<>>, <<>>),
     MkQuery("Values", <<>>, <<>>, <<>>, <<>>)}
    \cup {MkQuery("Values", <<>>, <<>>, <<>>, <<<<e>>>>) : e \in Exprs}
    \cup Selects({<<>>})

Froms ==
    {MkFrom(b, <<>>, <<>>, TRUE, TRUE, TRUE) : b \in {"BaseTable", "Join"}}
    \cup {MkFrom("Subquery", <<q>>, <<>>, TRUE, TRUE, a) :
              q \in InnerQueries, a \in BOOLEAN}
    \cup {MkFrom("TableFunction", <<>>, <<>>, FALSE, TRUE, TRUE)}
    \cup {MkFrom("TableFunction", <<>>, args, TRUE, b, a) :
              args \in {<<>>} \cup {<<e>> : e \in LeafExprs},
              b \in BOOLEAN, a \in BOOLEAN}

Statements ==
    {[stmt |-> s, query |-> <<>>] : s \in {"CreateSchema", "SetVariable"}}
    \cup {[stmt |-> "Query", query |-> <<q>>] :
              q \in InnerQueries \cup Selects({<<f>> : f \in Froms})}

InitPlan ==
    /\ new(0)
    /\ got = <<>>
    /\ sent = <<>>
    /\ poll_panic = FALSE
    /\ NoPlanning
    /\ NoTable
    /\ NoConcat
    /\ statement \in Statements
    /\ plan_out = "none"

PlanStatement ==
    /\ plan_out = "none"
    /\ plan_out' = plan_statement(statement)
    /\ UNCHANGED <<arrays, concat_out, nested_out, batch_list, batches_out,
                   statement>>
    /\ UNCHANGED <<bvars, svars, pvars>>

SpecPlan == InitPlan /\ [][PlanStatement]_vars

(* --------------------------- planning a literal ------------------------ *)

Signs == {<<>>, <<"+">>, <<"-">>}

LeadingZeros == {[i \in 1..k |-> "0"] : k \in 0..MaxZeros}

\* Number texts around the limits of the three parses, and texts that none
\* of them accepts.
NumberBodies ==
    {<<>>, <<"0">>, <<"7">>,
     I64Max, I64MinMagnitude, [I64MinMagnitude EXCEPT ![19] = "9"],
     U64Max, [U64Max EXCEPT ![20] = "6"],
     <<"1", ".", "5">>, <<".", "5">>, <<"5", ".">>, <<".">>,
     <<"1", "e", "5">>, <<"1", "e", "-", "5">>, <<"1", "e">>, <<"e", "5">>,
     <<"i", "n", "f">>, <<"n", "a", "n">>, <<"1", "x">>,
     <<"1", ".", "5", ".", "2">>}

NumberTexts ==
    {s \o z \o b : s \in Signs, z \in LeadingZeros, b \in NumberBodies}

Literals ==
    {MkLiteral("Number", n) : n \in NumberTexts}
    \cup {MkLiteral("Boolean", <<b>>) : b \in {"true", "false"}}
    \cup {MkLiteral("Null", <<>>),
          MkLiteral("SingleQuotedString", <<"7">>),
          MkLiteral("Other", <<"7">>)}

InitLiteral ==
    /\ new(0)
    /\ got = <<>>
    /\ sent = <<>>
    /\ poll_panic = FALSE
    /\ NoTable
    /\ NoConcat
    /\ NoPlan
    /\ literal_in \in Literals
    /\ literal_out = NotCalled
    /\ scope_in = <<>>
    /\ alias_in = <<>>
    /\ alias_out = NotCalled
    /\ values_in = <<>>
    /\ values_out = NotCalled

PlanLiteral ==
    /\ literal_out.status = "none"
    /\ literal_out' = plan_literal(literal_in)
    /\ UNCHANGED <<literal_in, scope_in, alias_in, alias_out, values_in,
                   values_out>>
    /\ UNCHANGED <<bvars, svars, cvars>>

SpecLiteral == InitLiteral /\ [][PlanLiteral]_vars

(* ---------------------------- applying an alias ------------------------ *)

\* The sequences over S of a length in lens.
SeqsOf(S, lens) == UNION {[1..k -> S] : k \in lens}

\* Scopes of at most MaxItems items, with and without a table reference.
Scopes ==
    SeqsOf({ScopeItem(a, c) : a \in {<<>>, <<TableReference("t")>>},
                              c \in {"a", "b"}},
           0..MaxItems)

\* No alias, a table alias alone, and a table alias with up to one column
\* alias more than a scope can have items.
Aliases ==
    {<<>>, <<FromAlias("x", <<>>)>>}
    \cup {<<FromAlias("x", <<cols>>)>> :
              cols \in SeqsOf({"p", "q"}, 0..(MaxItems + 1))}

InitAlias ==
    /\ new(0)
    /\ got = <<>>
    /\ sent = <<>>
    /\ poll_panic = FALSE
    /\ NoTable
    /\ NoConcat
    /\ NoPlan
    /\ literal_in = MkLiteral("none", <<>>)
    /\ literal_out = NotCalled
    /\ scope_in \in Scopes
    /\ alias_in \in Aliases
    /\ alias_out = NotCalled
    /\ values_in = <<>>
    /\ values_out = NotCalled

ApplyAlias ==
    /\ alias_out.status = "none"
    /\ alias_out' = apply_alias(scope_in, alias_in)
    /\ UNCHANGED <<literal_in, literal_out, scope_in, alias_in, values_in,
                   values_out>>
    /\ UNCHANGED <<bvars, svars, cvars>>

SpecAlias == InitAlias /\ [][ApplyAlias]_vars

(* ------------------------------ planning VALUES ------------------------ *)

\* An expression that plans, one that plan_expression refuses and one it has
\* no arm for.
ValueExprs ==
    {MkExpr("Literal", TRUE, <<>>), MkExpr("Ident", FALSE, <<>>),
     MkExpr("Function", TRUE, <<>>)}

\* VALUES lists of at most MaxRows rows of at most MaxCols expressions each;
\* the rows of a list need not be of one length.
ValuesRows == SeqsOf(SeqsOf(ValueExprs, 0..MaxCols), 0..MaxRows)

InitValues ==
    /\ new(0)
    /\ got = <<>>
    /\ sent = <<>>
    /\ poll_panic = FALSE
    /\ NoTable
    /\ NoConcat
    /\ NoPlan
    /\ literal_in = MkLiteral("none", <<>>)
    /\ literal_out = NotCalled
    /\ scope_in = <<>>
    /\ alias_in = <<>>
    /\ alias_out = NotCalled
    /\ values_in \in ValuesRows
    /\ values_out = NotCalled

PlanValues ==
    /\ values_out.status = "none"
    /\ values_out' = plan_values(values_in)
    /\ UNCHANGED <<literal_in, literal_out, scope_in, alias_in, alias_out,
                   values_in>>
    /\ UNCHANGED <<bvars, svars, cvars>>

SpecValues == InitValues /\ [][PlanValues]_vars

(* ------------------------------- properties ---------------------------- *)

\* The batches a receiver obtained before its first end-of-stream.
RECURSIVE UpToEnd(_)
UpToEnd(g) ==
    IF g = <<>> \/ Head(g).out = EndOfStream
        THEN <<>>
        ELSE <<Head(g).out>> \o UpToEnd(Tail(g))

\* The receivers that were handed slot i.
DeliveredTo(i) ==
    {r \in Receivers :
        \E k \in DOMAIN got[r] :
            got[r][k].idx = i /\ got[r][k].out # EndOfStream}

\* C1: with K sends followed by finish and receivers that poll each future
\* to completion before the next recv, the k-th output of every receiver is
\* the k-th batch sent, and end-of-stream comes only after finish, as output
\* K + 1, and is the last output.
InOrderThenEnd ==
    \A r \in Receivers : \A k \in DOMAIN got[r] :
        /\ got[r][k].idx = k - 1
        /\ IF got[r][k].out = EndOfStream
              THEN finished /\ k = Len(sent) + 1 /\ k = Len(got[r])
              ELSE k <= Len(sent) /\ got[r][k].out = sent[k]

InOrderThenEndWitness ==
    /\ num_receivers = 2
    /\ sent = <<1, 2>>
    /\ \A r \in Receivers : Len(got[r]) = 3 /\ got[r][3].out = EndOfStream

\* C2: any two receivers that reached end-of-stream obtained the same
\* sequence of batches before it, whatever the order of the operations.
SameSequenceForAll ==
    \A r1 \in Receivers : \A r2 \in Receivers :
        (AtEnd(r1) /\ AtEnd(r2)) => UpToEnd(got[r1]) = UpToEnd(got[r2])

\* C3: no future stays parked, never woken since its last poll, once its
\* slot exists or the channel is finished.
NoLostWakeup ==
    \A r \in Receivers : \A f \in DOMAIN futs[r] :
        futs[r][f].st = "pending" =>
            ~(futs[r][f].batch_idx < Len(batches) \/ finished)

\* C4: a send is possible in every state (up to the bound on the number of
\* sends), and every send that was made has appended its slot: the number
\* of slots is the number of sends whatever the receivers have consumed.
SendNeverBlocks ==
    /\ Len(batches) = Len(sent)
    /\ \A k \in DOMAIN batches :
          batches[k].remaining_recv = 0 \/ batches[k].batch = sent[k]
    /\ Len(sent) < MaxSends => ENABLED Send

SendNeverBlocksWitness ==
    /\ num_receivers = 2
    /\ Len(batches) = 2
    /\ \A k \in DOMAIN batches : batches[k].remaining_recv = 2
    /\ \E r \in Receivers : ~alive[r]
    /\ \E r \in Receivers : \E f \in DOMAIN futs[r] : futs[r][f].st = "woken"

\* C5 as stated: in every state a slot holds its payload exactly when its
\* remaining_recv is greater than 0.
PayloadIffRemaining ==
    \A k \in DOMAIN batches :
        (batches[k].batch # NoBatch) <=> (batches[k].remaining_recv > 0)

\* C5 as amended: in a channel with at least one receiver, a slot holds its
\* payload exactly when its remaining_recv is greater than 0.
PayloadIffRemainingWithReceivers ==
    num_receivers >= 1 => PayloadIffRemaining

PayloadIffRemainingWitness ==
    /\ num_receivers = 2
    /\ Len(batches) = 2
    /\ batches[1].remaining_recv = 0 /\ batches[1].batch = NoBatch
    /\ batches[2].remaining_recv = 1 /\ batches[2].batch # NoBatch

EndOfStreamAfterFinish ==
    [][finished =>
          /\ recv_wakers' = recv_wakers
          /\ \A r \in Receivers : \A f \in DOMAIN futs[r] :
                (futs[r][f].batch_idx >= Len(batches)
                    /\ futs[r][f].st \in Unresolved) =>
                   /\ futs'[r][f].st = "pending" => futs[r][f].st = "pending"
                   /\ futs'[r][f].st = "ready" =>
                          got'[r] = Append(got[r],
                                       [idx |-> futs[r][f].batch_idx,
                                        out |-> EndOfStream])]_vars

EndOfStreamAfterFinishWitness ==
    /\ finished
    /\ Len(batches) = 1
    /\ \E r \in Receivers : \E k \in DOMAIN got[r] :
          got[r][k].out = EndOfStream /\ got[r][k].idx = 1

\* The row groups of a scan, as a set.
RowGroupsOf(p) == {scans[p].row_groups[k] : k \in DOMAIN scans[p].row_groups}

\* C8: for num_partitions >= 1, row group g is in the work list of partition
\* g mod N and of no other, each work list is strictly ascending and holds
\* only row groups of the file, and partitions p >= R have an empty list.
RoundRobinAssignment ==
    (table_kind = "parquet" /\ scan_result = "Ok" /\ num_partitions >= 1) =>
        /\ Len(scans) = num_partitions
        /\ \A g \in 0..(num_row_groups - 1) : \A p \in DOMAIN scans :
              (g \in RowGroupsOf(p)) <=> (p - 1 = g % num_partitions)
        /\ \A p \in DOMAIN scans :
              /\ RowGroupsOf(p) \subseteq 0..(num_row_groups - 1)
              /\ \A k \in 1..(Len(scans[p].row_groups) - 1) :
                    scans[p].row_groups[k] < scans[p].row_groups[k + 1]
              /\ p - 1 >= num_row_groups => scans[p].row_groups = <<>>

RoundRobinAssignmentWitness ==
    /\ table_kind = "parquet"
    /\ scan_result = "Ok"
    /\ num_partitions = 3
    /\ num_row_groups = 4
    /\ scans[1].row_groups = <<0, 3>>
    /\ scans[3].row_groups = <<2>>

\* C9: whenever scan returns, it returns exactly num_partitions scans, for
\* every num_partitions >= 0 and for both tables (a failure to open the
\* file is not counted against the claim).
OneScanPerPartition ==
    scan_result \in {"Ok", "panic"} =>
        scan_result = "Ok" /\ Len(scans) = num_partitions

\* The places where source batch b of the stream was produced.
ProducedAt(b) ==
    {pk \in UNION {{<<p, k>> : k \in DOMAIN pulled[p]} : p \in DOMAIN pulled} :
        pulled[pk[1]][pk[2]] = b}

\* C10: the Postgres scan at index 0 is the stream scan and every other one
\* is an empty scan that yields no batch; the stream scan yields the source
\* batches in order, so that no source batch is produced twice, and once it
\* is exhausted every source batch has been produced exactly once.
SingleProducer ==
    (table_kind = "postgres" /\ scan_result = "Ok") =>
        /\ scans[1].kind = "PostgresDataTableScan"
        /\ \A p \in 2..Len(scans) :
              scans[p].kind = "EmptyTableScan" /\ pulled[p] = <<>>
        /\ pulled[1] = [k \in 1..stream_pos[1] |-> k]
        /\ \A b \in 1..stream_len : Cardinality(ProducedAt(b)) <= 1
        /\ scan_state[1] = "exhausted" =>
              \A b \in 1..stream_len : Cardinality(ProducedAt(b)) = 1

SingleProducerWitness ==
    /\ table_kind = "postgres"
    /\ scan_result = "Ok"
    /\ num_partitions = 3
    /\ stream_len = 2
    /\ pulled[1] = <<1, 2>>
    /\ \A p \in DOMAIN scans : scan_state[p] = "exhausted"

\* Every input array has the datatype of the first.
SameDatatype(arrs) ==
    \A i \in DOMAIN arrs : Datatype(arrs[i]) = Datatype(arrs[1])

\* The number of values the first n arrays of vs hold together.
RECURSIVE ValuesBefore(_, _)
ValuesBefore(vs, n) ==
    IF n = 0 THEN 0 ELSE Len(vs[n]) + ValuesBefore(vs, n - 1)

\* out holds the values of vs[1], then those of vs[2], and so on.
InInputOrder(out, vs) ==
    /\ Len(out) = ValuesBefore(vs, Len(vs))
    /\ \A i \in DOMAIN vs : \A k \in DOMAIN vs[i] :
           out[ValuesBefore(vs, i - 1) + k] = vs[i][k]

ConcatAssociative ==
    (/\ nested_out.left # NotCalled
     /\ SameDatatype(arrays))
    => /\ nested_out.left = concat_out
       /\ nested_out.right = concat_out

\* Three non-empty list arrays, the first without and the last with a
\* validity, have been concatenated in the three ways.
ConcatAssociativeWitness ==
    /\ nested_out.left.status = "Ok"
    /\ nested_out.right.status = "Ok"
    /\ \A i \in DOMAIN arrays :
           arrays[i].kind = "List" /\ ArrayLen(arrays[i]) > 0
    /\ ~arrays[1].validity.present
    /\ arrays[3].validity.present
    /\ concat_out.value[1].offsets[4] > 0

\* The number of lists (or rows) the first n arrays of arrs hold together.
RECURSIVE LenBefore(_, _)
LenBefore(arrs, n) ==
    IF n = 0 THEN 0 ELSE ArrayLen(arrs[n]) + LenBefore(arrs, n - 1)

\* C13: for every list concat result the new offsets start at 0, are
\* non-decreasing, have (sum of the input lengths) + 1 entries and end at the
\* length of the concatenated child array; each input contributes its offsets
\* without the first, each increased by the last offset emitted before them.
ListOffsetsWellFormed ==
    (concat_out.status = "Ok" /\ concat_out.value[1].kind = "List")
    => LET out == concat_out.value[1]
           new_offsets == out.offsets
       IN  /\ new_offsets[1] = 0
           /\ \A k \in 1..(Len(new_offsets) - 1) :
                  new_offsets[k] <= new_offsets[k + 1]
           /\ Len(new_offsets) = LenBefore(arrays, Len(arrays)) + 1
           /\ new_offsets[Len(new_offsets)] = ArrayLen(out.child[1])
           /\ \A i \in DOMAIN arrays : \A j \in 1..ArrayLen(arrays[i]) :
                  new_offsets[LenBefore(arrays, i - 1) + j + 1] =
                      arrays[i].offsets[j + 1]
                          + new_offsets[LenBefore(arrays, i - 1) + 1]

\* The j-th list of a list array: the slice of the child between two
\* consecutive offsets.
ListAt(a, j) ==
    SubSeq(a.child[1].values, a.offsets[j] + 1, a.offsets[j + 1])

\* C14: list concat preserves every list: for list arrays whose offsets are
\* non-decreasing within [0, len(child)], the j-th list of the result equals
\* the j-th list of the inputs taken in input order.
ListsPreserved ==
    (concat_out.status = "Ok" /\ concat_out.value[1].kind = "List")
    => \A i \in DOMAIN arrays : \A j \in 1..ArrayLen(arrays[i]) :
           ListAt(concat_out.value[1], LenBefore(arrays, i - 1) + j) =
               ListAt(arrays[i], j)

\* C15: the validity of a concat result is absent when every input's validity
\* is absent; otherwise its length is the sum of the input lengths and the
\* block of each input, at the offset given by the lengths before it, is the
\* input's mask when it has one and all-valid when it has none.
ValidityBlocks ==
    (concat_out.status = "Ok" /\ concat_out.value[1].kind # "Null")
    => LET validity == concat_out.value[1].validity
       IN  IF \A i \in DOMAIN arrays : ~arrays[i].validity.present
           THEN validity = NoValidity
           ELSE /\ validity.present
                /\ Len(validity.bits) = LenBefore(arrays, Len(arrays))
                /\ \A i \in DOMAIN arrays : \A k \in 1..ArrayLen(arrays[i]) :
                       validity.bits[LenBefore(arrays, i - 1) + k] =
                           IF arrays[i].validity.present
                           THEN arrays[i].validity.bits[k]
                           ELSE TRUE

\* An array without a validity has been concatenated after one whose mask
\* marks a null, and before one with a mask.
ValidityBlocksWitness ==
    /\ concat_out.status = "Ok"
    /\ Len(arrays) = 3
    /\ arrays[1].validity = SomeValidity(<<FALSE>>)
    /\ arrays[2].validity = NoValidity
    /\ ArrayLen(arrays[2]) = 1
    /\ arrays[3].validity.present
    /\ concat_out.value[1].validity.bits[2]

\* C16: concat_batches fails whenever the input batches differ in width, one
\* having fewer or more columns than another; it never returns a batch made
\* from a part of a wider batch's columns.
WidthMismatchFails ==
    (/\ batches_out # NotCalled
     /\ \E i \in DOMAIN batch_list :
            Len(batch_list[i].cols) # Len(batch_list[1].cols))
    => batches_out.status = "Err"

\* The message of the error collect_arrays_of_type! returns.
TypeMismatch == "Array is not of the expected type"

RECURSIVE VariantMismatch(_)
VariantMismatch(arrs) ==
    \/ \E i \in DOMAIN arrs : arrs[i].kind # arrs[1].kind
    \/ /\ arrs[1].kind = "List"
       /\ \A i \in DOMAIN arrs : arrs[i].kind = "List"
       /\ VariantMismatch([i \in DOMAIN arrs |-> arrs[i].child[1]])

EmptyInputs ==
    /\ (concat_out # NotCalled /\ arrays = <<>>)
           => concat_out = Err("Cannot concat zero arrays")
    /\ (batches_out # NotCalled /\ batch_list = <<>>)
           => /\ batches_out.status = "Ok"
              /\ batches_out.value[1].num_rows = 0
              /\ batches_out.value[1].cols = <<>>

\* Both functions have been called on an empty list.
EmptyInputsWitness ==
    /\ arrays = <<>>
    /\ batch_list = <<>>
    /\ concat_out.status = "Err"
    /\ batches_out.status = "Ok"

\* C19: the planner never panics on user input: for every unsupported
\* statement, query body, FROM body or expression form, plan_statement and
\* plan_expression return an error value instead of aborting.
PlannerNeverPanics == plan_out # "panic"

\* C20: finish sets finished, wakes every registered waker whatever its
\* target index, leaves every recv_wakers entry empty and the batch slots
\* unchanged; a second finish leaves the channel as the first one left it.
FinishIdempotent ==
    /\ [][(~finished /\ finished') =>
             /\ \A r \in Receivers :
                    /\ recv_wakers'[r] = NoWaker
                    /\ (/\ recv_wakers[r].some
                        /\ futs[r][recv_wakers[r].waker].st = "pending")
                           => futs'[r][recv_wakers[r].waker].st = "woken"
             /\ batches' = batches]_vars
    /\ [](finished => ~ENABLED (finish /\ bvars' # bvars))

\* finish has woken two parked futures that waited for different indices.
FinishIdempotentWitness ==
    /\ finished
    /\ \E r1, r2 \in Receivers : \E f1 \in DOMAIN futs[r1] :
       \E f2 \in DOMAIN futs[r2] :
          /\ futs[r1][f1].st = "woken"
          /\ futs[r2][f2].st = "woken"
          /\ futs[r1][f1].batch_idx # futs[r2][f2].batch_idx
          /\ futs[r1][f1].batch_idx >= Len(batches)
          /\ futs[r2][f2].batch_idx >= Len(batches)

\* C21: send appends exactly one slot with remaining_recv = N and the batch
\* stored, wakes and clears exactly the recv_wakers entries whose target index
\* is the index of the appended slot, and leaves every other waker entry,
\* every earlier slot and the finished flag unchanged.
SendFrameEffect ==
    [][Len(batches') # Len(batches) =>
          LET idx == Len(batches)
          IN  /\ Len(batches') = idx + 1
              /\ \A i \in 1..idx : batches'[i] = batches[i]
              /\ batches'[idx + 1].remaining_recv = num_receivers
              /\ batches'[idx + 1].batch = sent'[Len(sent')]
              /\ batches'[idx + 1].batch # NoBatch
              /\ \A r \in Receivers :
                     IF recv_wakers[r].some /\ recv_wakers[r].batch_idx = idx
                     THEN /\ recv_wakers'[r] = NoWaker
                          /\ futs[r][recv_wakers[r].waker].st = "pending"
                                => futs'[r][recv_wakers[r].waker].st = "woken"
                     ELSE /\ recv_wakers'[r] = recv_wakers[r]
                          /\ futs'[r] = futs[r]
              /\ finished' = finished]_vars

\* The first send has woken a future parked on index 0 and has left in place
\* the waker of a receiver parked on index 1.
SendFrameEffectWitness ==
    /\ Len(batches) = 1
    /\ \E r \in Receivers :
           recv_wakers[r].some /\ recv_wakers[r].batch_idx = 1
    /\ \E r \in Receivers : \E f \in DOMAIN futs[r] :
           futs[r][f].st = "woken" /\ futs[r][f].batch_idx = 0

\* C22: a poll of a future for index i when slot i does not exist and the
\* channel is not finished returns Pending and sets the receiver's entry of
\* recv_wakers to (i, current waker), overwriting a prior entry; it changes
\* no other receiver's entry, no slot and not the finished flag.  Each
\* receiver has one entry, hence at most one registered waker.
PollPendingRegisters ==
    /\ [][\A r \in Receivers : \A f \in DOMAIN futs[r] :
             (/\ futs[r][f].st \in Unresolved
              /\ futs[r][f].batch_idx >= Len(batches)
              /\ ~finished
              /\ poll(r, f))
             => /\ futs'[r][f].st = "pending"
                /\ got' = got
                /\ recv_wakers'[r] = SomeWaker(futs[r][f].batch_idx, f)
                /\ \A q \in Receivers \ {r} :
                       recv_wakers'[q] = recv_wakers[q]
                /\ batches' = batches
                /\ finished' = finished]_vars
    /\ [](DOMAIN recv_wakers = Receivers)

\* The second future of a receiver has overwritten the entry of its first
\* future, which is still parked, while another receiver is registered too.
PollPendingRegistersWitness ==
    \E r, q \in Receivers :
        /\ q # r
        /\ Len(futs[r]) >= 2
        /\ futs[r][1].st = "pending"
        /\ futs[r][2].st = "pending"
        /\ recv_wakers[r] = SomeWaker(1, 2)
        /\ recv_wakers[q].some
        /\ ~finished

\* The receivers that obtained the payload of slot i (0-based).
ConsumersOf(i) ==
    {r \in Receivers : \E k \in DOMAIN got[r] :
        got[r][k].idx = i /\ got[r][k].out # EndOfStream}

\* C23: the cursor advances on call: the k-th recv of a receiver (k from 0)
\* returns a future bound to index k whether or not earlier futures were
\* polled or resolved; a receiver that drops the future for index k never
\* obtains batch k, and remaining_recv of slot k is not decremented for it.
CursorAdvancesOnCall ==
    /\ \A r \in Receivers :
           /\ batch_idx[r] = Len(futs[r])
           /\ \A k \in DOMAIN futs[r] : futs[r][k].batch_idx = k - 1
    /\ \A r \in Receivers : \A f \in DOMAIN futs[r] :
           futs[r][f].st = "dropped" =>
               /\ \A k \in DOMAIN got[r] : got[r][k].idx # f - 1
               /\ r \notin ConsumersOf(f - 1)
    /\ \A i \in DOMAIN batches :
           batches[i].remaining_recv =
               num_receivers - Cardinality(ConsumersOf(i - 1))

\* A receiver dropped its future for index 0 and resolved the one for index
\* 1: slot 0 still counts it, slot 1 does not.
CursorAdvancesOnCallWitness ==
    \E r \in Receivers :
        /\ Len(batches) = 2
        /\ Len(futs[r]) = 2
        /\ futs[r][1].st = "dropped"
        /\ futs[r][2].st = "ready"
        /\ got[r] = <<[idx |-> 1, out |-> sent[2]]>>
        /\ batches[1].remaining_recv = num_receivers
        /\ batches[2].remaining_recv = num_receivers - 1

\* C24: dropping a receiver does not decrement remaining_recv of any slot; a
\* slot the dropped receiver never consumed keeps its batch stored until
\* every other receiver has consumed it (and, its count not reaching 0, after
\* that as well).
DropKeepsPayload ==
    /\ [][alive' # alive =>
             /\ batches' = batches
             /\ recv_wakers' = recv_wakers]_vars
    /\ [](\A r \in Receivers : \A i \in DOMAIN batches :
             (~alive[r] /\ r \notin ConsumersOf(i - 1)) =>
                 /\ batches[i].remaining_recv >= 1
                 /\ batches[i].batch = sent[i])

\* A receiver was dropped without a future for slot 0, and every other
\* receiver has consumed slot 0, whose payload is still stored.
DropKeepsPayloadWitness ==
    \E r \in Receivers :
        /\ num_receivers = 2
        /\ ~alive[r]
        /\ futs[r] = <<>>
        /\ Len(batches) >= 1
        /\ ConsumersOf(0) = Receivers \ {r}
        /\ batches[1].remaining_recv = 1
        /\ batches[1].batch # NoBatch

\* The number of batches the receiver has obtained: its next index to consume.
Consumed(r) ==
    Cardinality({k \in DOMAIN got[r] : got[r][k].out # EndOfStream})

\* The next index of the slowest receiver.
SlowestNext ==
    CHOOSE m \in {Consumed(r) : r \in Receivers} :
        \A r \in Receivers : m <= Consumed(r)

\* C25: when every receiver consumes in order (N > 0), the slots that still
\* hold a payload are exactly those from the slowest receiver's next index up
\* to the last appended slot, so the number of retained payloads is the gap
\* between the producer and the slowest receiver.
RetainedIsGap ==
    num_receivers > 0 =>
        /\ \A i \in DOMAIN batches :
               batches[i].batch # NoBatch <=> i - 1 >= SlowestNext
        /\ Cardinality({i \in DOMAIN batches : batches[i].batch # NoBatch})
              = Len(batches) - SlowestNext

\* Two receivers, two slots: one receiver has consumed both, the other only
\* the first, so exactly the second payload is retained.
RetainedIsGapWitness ==
    /\ num_receivers = 2
    /\ Len(batches) = 2
    /\ \E r, q \in Receivers : Consumed(r) = 2 /\ Consumed(q) = 1
    /\ batches[1].batch = NoBatch
    /\ batches[2].batch = sent[2]

\* C26: if the producer sends finitely often and then finishes, and every
\* receiver keeps one unresolved future at a time, polls it when it is created
\* and again whenever its waker was woken, then every receiver eventually
\* obtains end-of-stream and none of its futures stays Pending.
EveryReceiverEnds ==
    \A r \in 0..(MaxReceivers - 1) :
        /\ <>(r \in Receivers => AtEnd(r))
        /\ <>[](r \in Receivers =>
                  \A f \in DOMAIN futs[r] : futs[r][f].st = "ready")

\* Two receivers obtained every batch and then end-of-stream, after a finish
\* that followed at least one send.
EveryReceiverEndsWitness ==
    /\ num_receivers = 2
    /\ finished
    /\ Len(sent) >= 1
    /\ \A r \in Receivers :
           /\ AtEnd(r)
           /\ Consumed(r) = Len(sent)
           /\ \A f \in DOMAIN futs[r] : futs[r][f].st = "ready"

\* C27: as long as no future is polled again after it returned Ready, each
\* slot's remaining_recv stays within 0..N and no poll fails: no decrement
\* underflowed, no unwrap met a taken batch, and every future that may still
\* be polled on an existing slot finds a count of at least 1 and the payload
\* stored.
NoPollFailure ==
    /\ poll_panic = FALSE
    /\ \A i \in DOMAIN batches :
           batches[i].remaining_recv \in 0..num_receivers
    /\ \A r \in Receivers : \A f \in DOMAIN futs[r] :
           (futs[r][f].st \in Unresolved
              /\ futs[r][f].batch_idx < Len(batches)) =>
               /\ batches[futs[r][f].batch_idx + 1].remaining_recv >= 1
               /\ batches[futs[r][f].batch_idx + 1].batch # NoBatch

\* Both receivers have emptied slot 0 and one of them is about to poll slot 1,
\* which still has its full count and its payload.
NoPollFailureWitness ==
    /\ num_receivers = 2
    /\ Len(batches) = 2
    /\ batches[1].remaining_recv = 0
    /\ batches[1].batch = NoBatch
    /\ batches[2].remaining_recv = 2
    /\ \E r \in Receivers : \E f \in DOMAIN futs[r] :
           /\ futs[r][f].st \in Unresolved
           /\ futs[r][f].batch_idx = 1

\* The number text parses as the given type.
ParsesAs(parse(_)) ==
    literal_in.kind = "Number" /\ parse(literal_in.text).status = "Ok"

\* C28: plan_literal classifies a number text by the first parse that
\* succeeds in the order i64, u64, f64: Int64 if it parses as i64 (never UInt64
\* or Float64), else UInt64 if it parses as u64, else Float64 if it parses as
\* f64, else planning fails with an error.
LiteralParseOrder ==
    (literal_in.kind = "Number" /\ literal_out.status # "none") =>
        /\ ParsesAs(parse_i64) =>
              /\ literal_out.status = "Ok"
              /\ literal_out.value[1].type = "Int64"
        /\ (~ParsesAs(parse_i64) /\ ParsesAs(parse_u64)) =>
              /\ literal_out.status = "Ok"
              /\ literal_out.value[1].type = "UInt64"
        /\ (~ParsesAs(parse_i64) /\ ~ParsesAs(parse_u64)
              /\ ParsesAs(parse_f64)) =>
              /\ literal_out.status = "Ok"
              /\ literal_out.value[1].type = "Float64"
        /\ (~ParsesAs(parse_i64) /\ ~ParsesAs(parse_u64)
              /\ ~ParsesAs(parse_f64)) =>
              literal_out.status = "Err"

\* i64::MAX parses as i64, as u64 and as f64, and was planned as Int64.
LiteralParseOrderWitness ==
    /\ literal_in = MkLiteral("Number", I64Max)
    /\ ParsesAs(parse_i64) /\ ParsesAs(parse_u64) /\ ParsesAs(parse_f64)
    /\ literal_out.status = "Ok"
    /\ literal_out.value[1].type = "Int64"

\* The column aliases of the alias handed to apply_alias; none counts as an
\* empty list.
ColumnAliases ==
    IF alias_in = <<>> \/ alias_in[1].columns = <<>>
    THEN <<>>
    ELSE alias_in[1].columns[1]

\* C29: apply_alias returns the scope unchanged when there is no alias; with
\* more column aliases than columns it fails and returns no scope; otherwise
\* the result has the same number of items in the same order, every item
\* carries the table alias, the first len(aliases) columns carry the column
\* aliases in order and the remaining columns keep their names.
AliasApplied ==
    alias_out.status # "none" =>
        IF alias_in = <<>>
        THEN alias_out = Ok(scope_in)
        ELSE IF Len(ColumnAliases) > Len(scope_in)
        THEN alias_out.status = "Err" /\ alias_out.value = <<>>
        ELSE /\ alias_out.status = "Ok"
             /\ Len(alias_out.value[1]) = Len(scope_in)
             /\ \A i \in DOMAIN scope_in :
                    /\ alias_out.value[1][i].alias =
                           <<TableReference(alias_in[1].alias)>>
                    /\ alias_out.value[1][i].column =
                           IF i <= Len(ColumnAliases)
                           THEN ColumnAliases[i]
                           ELSE scope_in[i].column

\* A scope of two columns, the first of another table and the second of
\* none, was aliased with one column alias: the first column is renamed, the
\* second keeps its name, both carry the new table.
AliasAppliedWitness ==
    /\ scope_in = <<ScopeItem(<<TableReference("t")>>, "a"),
                    ScopeItem(<<>>, "b")>>
    /\ alias_in = <<FromAlias("x", <<<<"p">>>>)>>
    /\ alias_out = Ok(<<ScopeItem(<<TableReference("x")>>, "p"),
                        ScopeItem(<<TableReference("x")>>, "b")>>)

\* C30: plan_values rejects zero rows with an error, and for every VALUES
\* list it accepts the output scope has the columns column1..columnN, N the
\* length of the first row, and every row of the produced ExpressionList has
\* exactly N expressions.
ValuesRowsOfOneWidth ==
    /\ (values_out.status # "none" /\ values_in = <<>>) =>
           values_out.status = "Err"
    /\ values_out.status = "Ok" =>
           LET N == Len(values_in[1])
               query == values_out.value[1]
           IN  /\ Len(query.scope) = N
               /\ \A i \in 1..N : query.scope[i].column = <<"column", i>>
               /\ \A r \in DOMAIN query.root.rows :
                      Len(query.root.rows[r]) = N

====
